---- MODULE Spec2Model ----
(***************************************************************************)
(* Day planner of the commonplace book (components/DayPlanner): the        *)
(* scheduling functions scoreTask, pickVariant and buildDayPlan, and the   *)
(* DayPlanner component's points / review handlers.                        *)
(*                                                                         *)
(* Units.  morningData.hours is kept in half hours (the slider's step is   *)
(* 0.5), so availableMinutes = hours * 30.  avg_energy and effectiveEnergy *)
(* are kept in tenths (the code rounds avg_energy to one decimal).  Scores *)
(* are kept in 1/10000 points.  Dates are day numbers, day 0 a Sunday.     *)
(***************************************************************************)
EXTENDS Integers, Sequences, FiniteSets, TLC

\* ---------------------------------------------------------------- bounds
MaxTasks == 3         \* tasks in a task list given to buildDayPlan
MaxHours == 6         \* morningData.hours (half hours) given to buildDayPlan
MaxEvents == 9        \* clicks, inputs and timer callbacks in one session

\* ------------------------------------------------------------- constants
FEEDBACK_POINTS == 15
PERFECT_DAY_BONUS == 200
BASE_POINTS_MIN == 1
LOG_CAP == 200
GRACE_MINUTES == 15
MAX_ENERGY == 10
ScoreScale == 100 * 100

Null == [null |-> TRUE]

SleepNames == {"terrible", "poor", "ok", "good", "great"}

SLEEP_SCORES(sleep) ==
  CASE sleep = "terrible" -> 1
    [] sleep = "poor" -> 3
    [] sleep = "ok" -> 5
    [] sleep = "good" -> 7
    [] sleep = "great" -> 9
    [] OTHER -> 5

\* FREQ_DAYS in hundredths of a day; 0 when the frequency is not in the table
FREQ_DAYS(frequency) ==
  CASE frequency = "daily" -> 100
    [] frequency = "2x_daily" -> 50
    [] frequency = "3x_weekly" -> 233
    [] frequency = "weekly" -> 700
    [] frequency = "2x_weekly" -> 350
    [] frequency = "biweekly" -> 1400
    [] frequency = "monthly" -> 3000
    [] frequency = "once" -> 999900
    [] OTHER -> 0

DayNames == <<"sun", "mon", "tue", "wed", "thu", "fri", "sat">>
AllDays == {"sun", "mon", "tue", "wed", "thu", "fri", "sat"}
WeekDays == {"mon", "tue", "wed", "thu", "fri"}

\* ---------------------------------------------------------------- helpers
Max2(a, b) == IF a >= b THEN a ELSE b
Min2(a, b) == IF a <= b THEN a ELSE b
Abs(a) == IF a < 0 THEN 0 - a ELSE a

\* { ...r, ...s }
Spread(r, s) ==
  [k \in (DOMAIN r) \cup (DOMAIN s) |-> IF k \in DOMAIN s THEN s[k] ELSE r[k]]

RECURSIVE SumSeq(_)
SumSeq(s) == IF s = <<>> THEN 0 ELSE Head(s) + SumSeq(Tail(s))

\* Array.prototype.sort with comparator (a, b) => keys[a] - keys[b]: ascending,
\* stable (equal keys keep their encounter order).
StableSort(s, keys) ==
  LET pos(i) == 1 + Cardinality({j \in 1..Len(s) : keys[j] < keys[i]})
                  + Cardinality({j \in 1..(i - 1) : keys[j] = keys[i]})
  IN  [p \in 1..Len(s) |-> s[CHOOSE i \in 1..Len(s) : pos(i) = p]]

\* learnedData[id] || {}
NoLearned == [count |-> 0, avg_duration |-> 0, avg_energy |-> 0,
              last_done |-> 0, completed_today |-> FALSE]
Learned(ld, id) == IF id \in DOMAIN ld THEN ld[id] ELSE NoLearned

\* ------------------------------------------------------------- scoreTask
\* Math.ceil((new Date(task.deadline) - today) / 86400000): the deadline is
\* parsed as UTC midnight, today is local midnight, tz hours east of UTC.
CeilDiv(a, b) == 0 - ((0 - a) \div b)

DaysLeft(deadline, day) == CeilDiv((deadline - day.day) * 24 + day.tz, 24)

Urgency(task, day) ==
  IF task.deadline = 0 THEN 0
  ELSE LET daysLeft == DaysLeft(task.deadline, day)
       IN  IF daysLeft <= 0 THEN 30
           ELSE IF daysLeft <= 1 THEN 28
           ELSE IF daysLeft <= 3 THEN 22
           ELSE IF daysLeft <= 7 THEN 16
           ELSE IF daysLeft <= 14 THEN 10
           ELSE IF daysLeft <= 30 THEN 5
           ELSE 1

\* (today - new Date(learned.last_done)) / 86400000 and FREQ_DAYS, both in
\* 1/100 hours
DaysSince(last_done, day) == ((day.day - last_done) * 24 - day.tz) * 100
Expected(frequency) == FREQ_DAYS(frequency) * 24

\* overduePts in 1/ScoreScale points, truncated
OverduePts(task, learned, day) ==
  IF learned.last_done # 0 /\ FREQ_DAYS(task.frequency) # 0
  THEN LET daysSince == DaysSince(learned.last_done, day)
           expected == Expected(task.frequency)
       IN  IF daysSince > expected
           THEN IF daysSince - expected >= expected THEN 15 * ScoreScale
                ELSE (((daysSince - expected) * 1500) \div expected)
                        * (ScoreScale \div 100)
           ELSE 0
  ELSE 0

\* overduePts > 10, exactly
OverdueOver10(task, learned, day) ==
  /\ learned.last_done # 0
  /\ FREQ_DAYS(task.frequency) # 0
  /\ DaysSince(learned.last_done, day) > Expected(task.frequency)
  /\ (DaysSince(learned.last_done, day) - Expected(task.frequency)) * 3
        > 2 * Expected(task.frequency)

\* faulty variant (sensitivity test): looks up the task's own record instead of the blocker's
IsBlockedOwnRecord(task, ld) ==
  task.blockers # {} /\ ~Learned(ld, task.id).completed_today

IsBlocked(task, ld) ==
  \E b \in task.blockers : ~Learned(ld, b).completed_today

\* faulty variant (sensitivity test): the blocker test before the weekday test
scoreTaskBlockersFirst(task, md, ld, day) ==
  LET learned == Learned(ld, task.id)
      effectiveDuration == IF learned.avg_duration # 0 THEN learned.avg_duration
                           ELSE task.duration_minutes
      effectiveEnergy == IF learned.avg_energy # 0 THEN learned.avg_energy
                         ELSE task.energy_required * 10
      urgency == Urgency(task, day) * ScoreScale
      criticality == (IF task.mandatory THEN 25
                      ELSE IF task.critical THEN 15 ELSE 0) * ScoreScale
      energyFit == Max2(0, 20000 - Abs(md.energy * 10 - effectiveEnergy) * 250)
                     * (10 + (5 - SLEEP_SCORES(md.sleep)))
      overduePts == OverduePts(task, learned, day)
  IN  IF IsBlocked(task, ld)
      THEN Spread(task, [score |-> 0, blocked |-> TRUE,
                         effectiveDuration |-> effectiveDuration,
                         effectiveEnergy |-> effectiveEnergy])
      ELSE IF task.days_available # {}
              /\ DayNames[(day.day % 7) + 1] \notin task.days_available THEN Null
      ELSE Spread(task, [score |-> urgency + criticality + energyFit + overduePts,
                         urgency |-> urgency, criticality |-> criticality,
                         energyFit |-> energyFit, overduePts |-> overduePts,
                         effectiveDuration |-> effectiveDuration,
                         effectiveEnergy |-> effectiveEnergy, blocked |-> FALSE])

\* faulty variant (sensitivity test): the learned averages whenever a record exists
scoreTaskLearnedIfPresent(task, md, ld, day) ==
  LET sleepScore == SLEEP_SCORES(md.sleep)
      learned == Learned(ld, task.id)
      effectiveDuration == IF task.id \in DOMAIN ld THEN learned.avg_duration
                           ELSE task.duration_minutes
      effectiveEnergy == IF task.id \in DOMAIN ld THEN learned.avg_energy
                         ELSE task.energy_required * 10
      urgency == Urgency(task, day) * ScoreScale
      criticality == (IF task.mandatory THEN 25
                      ELSE IF task.critical THEN 15 ELSE 0) * ScoreScale
      sleepMultiplier == 10 + (5 - sleepScore)      \* in tenths
      energyDiff == Abs(md.energy * 10 - effectiveEnergy)
      \* max(0, 20 - energyDiff * 2.5) in 1/1000, times sleepMultiplier in tenths
      energyFit == Max2(0, 20000 - energyDiff * 250) * sleepMultiplier
      overduePts == OverduePts(task, learned, day)
      dayName == DayNames[(day.day % 7) + 1]
  IN  IF task.days_available # {} /\ dayName \notin task.days_available THEN Null
      ELSE IF IsBlocked(task, ld)
      THEN Spread(task, [score |-> 0, blocked |-> TRUE,
                         effectiveDuration |-> effectiveDuration,
                         effectiveEnergy |-> effectiveEnergy])
      ELSE Spread(task, [score |-> urgency + criticality + energyFit + overduePts,
                         urgency |-> urgency, criticality |-> criticality,
                         energyFit |-> energyFit, overduePts |-> overduePts,
                         effectiveDuration |-> effectiveDuration,
                         effectiveEnergy |-> effectiveEnergy, blocked |-> FALSE])

scoreTask(task, md, ld, day) ==
  LET sleepScore == SLEEP_SCORES(md.sleep)
      learned == Learned(ld, task.id)
      effectiveDuration == IF learned.avg_duration # 0 THEN learned.avg_duration
                           ELSE task.duration_minutes
      effectiveEnergy == IF learned.avg_energy # 0 THEN learned.avg_energy
                         ELSE task.energy_required * 10
      urgency == Urgency(task, day) * ScoreScale
      criticality == (IF task.mandatory THEN 25
                      ELSE IF task.critical THEN 15 ELSE 0) * ScoreScale
      sleepMultiplier == 10 + (5 - sleepScore)      \* in tenths
      energyDiff == Abs(md.energy * 10 - effectiveEnergy)
      \* max(0, 20 - energyDiff * 2.5) in 1/1000, times sleepMultiplier in tenths
      energyFit == Max2(0, 20000 - energyDiff * 250) * sleepMultiplier
      overduePts == OverduePts(task, learned, day)
      dayName == DayNames[(day.day % 7) + 1]
  IN  IF task.days_available # {} /\ dayName \notin task.days_available THEN Null
      ELSE IF IsBlocked(task, ld)
      THEN Spread(task, [score |-> 0, blocked |-> TRUE,
                         effectiveDuration |-> effectiveDuration,
                         effectiveEnergy |-> effectiveEnergy])
      ELSE Spread(task, [score |-> urgency + criticality + energyFit + overduePts,
                         urgency |-> urgency, criticality |-> criticality,
                         energyFit |-> energyFit, overduePts |-> overduePts,
                         effectiveDuration |-> effectiveDuration,
                         effectiveEnergy |-> effectiveEnergy, blocked |-> FALSE])

\* ----------------------------------------------------------- pickVariant
VariantDuration(v) == v.duration_minutes

\* fitting.reduce((best, v) => |v.e - E| < |best.e - E| ? v : best, fitting[0]),
\* distances times 3, E3 = 3 * effectiveEnergy = 2 * energy + sleepScore
\* faulty variant (sensitivity test): <= for <, the last of equal matches wins
RECURSIVE BestMatchLastWins(_, _, _)
BestMatchLastWins(best, rest, E3) ==
  IF rest = <<>> THEN best
  ELSE LET v == Head(rest)
       IN  BestMatchLastWins(IF Abs(3 * v.energy_required - E3) <= Abs(3 * best.energy_required - E3)
                             THEN v ELSE best,
                             Tail(rest), E3)

RECURSIVE BestMatch(_, _, _)
BestMatch(best, rest, E3) ==
  IF rest = <<>> THEN best
  ELSE LET v == Head(rest)
       IN  BestMatch(IF Abs(3 * v.energy_required - E3) < Abs(3 * best.energy_required - E3)
                     THEN v ELSE best,
                     Tail(rest), E3)

\* faulty variant (sensitivity test): under pressure the best energy match
\* among all variants, fitting or not
pickVariantIgnoresFit(task, energy, sleep, timeRemaining, timePressure) ==
  IF task.variants = <<>> THEN Null
  ELSE
    LET sleepScore == SLEEP_SCORES(sleep)
        E3 == 2 * energy + sleepScore
        sorted == StableSort(task.variants, [i \in DOMAIN task.variants |-> VariantDuration(task.variants[i])])
        Fits(v) == v.duration_minutes <= timeRemaining
        fitting == SelectSeq(sorted, Fits)
    IN  IF timePressure
        THEN BestMatch(sorted[1], sorted, E3)
        ELSE IF fitting = <<>> THEN sorted[1]
        ELSE IF 2 * E3 < 21 THEN fitting[1]
        ELSE BestMatch(fitting[1], fitting, E3)

\* faulty variant (sensitivity test): under pressure the longest variant that fits
pickVariantFillsTime(task, energy, sleep, timeRemaining, timePressure) ==
  IF task.variants = <<>> THEN Null
  ELSE
    LET sleepScore == SLEEP_SCORES(sleep)
        E3 == 2 * energy + sleepScore
        sorted == StableSort(task.variants, [i \in DOMAIN task.variants |-> VariantDuration(task.variants[i])])
        Fits(v) == v.duration_minutes <= timeRemaining
        fitting == SelectSeq(sorted, Fits)
    IN  IF timePressure
        THEN (IF fitting # <<>> THEN fitting[Len(fitting)] ELSE sorted[1])
        ELSE IF fitting = <<>> THEN sorted[1]
        ELSE IF 2 * E3 < 21 THEN fitting[1]
        ELSE BestMatch(fitting[1], fitting, E3)

pickVariant(task, energy, sleep, timeRemaining, timePressure) ==
  IF task.variants = <<>> THEN Null
  ELSE
    LET sleepScore == SLEEP_SCORES(sleep)
        E3 == 2 * energy + sleepScore
        sorted == StableSort(task.variants, [i \in DOMAIN task.variants |-> VariantDuration(task.variants[i])])
        Fits(v) == v.duration_minutes <= timeRemaining
        fitting == SelectSeq(sorted, Fits)
    IN  IF timePressure
        THEN (IF fitting # <<>> THEN fitting[1] ELSE sorted[1])
        ELSE IF fitting = <<>> THEN sorted[1]
        ELSE IF 2 * E3 < 21 THEN fitting[1]
        ELSE BestMatch(fitting[1], fitting, E3)

\* ---------------------------------------------------------- buildDayPlan
NegScore(t) == 0 - t.score

\* faulty variant (sensitivity test): the nominal duration even when a variant was chosen
ScheduledDurationNominal(task, variant) ==
  task.effectiveDuration

ScheduledDuration(task, variant) ==
  IF variant = Null THEN task.effectiveDuration ELSE variant.duration_minutes

\* faulty variant (sensitivity test): a mandatory task is admitted only while it fits the budget
RECURSIVE MandatoryPassWithinBudget(_, _, _, _)
MandatoryPassWithinBudget(todo, md, availableMinutes, acc) ==
  IF todo = <<>> THEN acc
  ELSE LET task == Head(todo)
           variant == pickVariant(task, md.energy, md.sleep,
                                  availableMinutes - acc.minutesUsed, FALSE)
           duration == ScheduledDuration(task, variant)
       IN  MandatoryPassWithinBudget(Tail(todo), md, availableMinutes,
             IF acc.minutesUsed + duration <= availableMinutes
             THEN [plan |-> Append(acc.plan,
                              Spread(task, [scheduledDuration |-> duration,
                                            variant |-> variant, pinned |-> TRUE])),
                   minutesUsed |-> acc.minutesUsed + duration]
             ELSE acc)

\* for (const task of mandatory) { ... }   acc = [plan, minutesUsed]
RECURSIVE MandatoryPass(_, _, _, _)
MandatoryPass(todo, md, availableMinutes, acc) ==
  IF todo = <<>> THEN acc
  ELSE LET task == Head(todo)
           variant == pickVariant(task, md.energy, md.sleep,
                                  availableMinutes - acc.minutesUsed, FALSE)
           duration == ScheduledDuration(task, variant)
       IN  MandatoryPass(Tail(todo), md, availableMinutes,
             [plan |-> Append(acc.plan,
                         Spread(task, [scheduledDuration |-> duration,
                                       variant |-> variant, pinned |-> TRUE])),
              minutesUsed |-> acc.minutesUsed + duration])

\* faulty variant (sensitivity test): the grace test forgets the task's own duration
CriticalAdmitsBeforeAdding(minutesUsed, duration, availableMinutes) ==
  minutesUsed <= availableMinutes + GRACE_MINUTES

\* faulty variant (sensitivity test): the grace band is twice as wide
CriticalAdmitsWideGrace(minutesUsed, duration, availableMinutes) ==
  minutesUsed + duration <= availableMinutes + 2 * GRACE_MINUTES

CriticalAdmits(minutesUsed, duration, availableMinutes) ==
  minutesUsed + duration <= availableMinutes + GRACE_MINUTES

\* faulty variant (sensitivity test): the first rejected task ends the pass
RECURSIVE CriticalPassStopsAtReject(_, _, _, _, _)
CriticalPassStopsAtReject(todo, md, availableMinutes, timePressure, acc) ==
  IF todo = <<>> THEN acc
  ELSE LET task == Head(todo)
           variant == pickVariant(task, md.energy, md.sleep,
                                  availableMinutes - acc.minutesUsed, timePressure)
           duration == ScheduledDuration(task, variant)
       IN  IF CriticalAdmits(acc.minutesUsed, duration, availableMinutes)
           THEN CriticalPassStopsAtReject(Tail(todo), md, availableMinutes, timePressure,
                  [plan |-> Append(acc.plan,
                              Spread(task, [scheduledDuration |-> duration,
                                            variant |-> variant,
                                            compressed |-> timePressure /\ variant # Null])),
                   minutesUsed |-> acc.minutesUsed + duration])
           ELSE acc

\* for (const task of critical) { ... }
RECURSIVE CriticalPass(_, _, _, _, _)
CriticalPass(todo, md, availableMinutes, timePressure, acc) ==
  IF todo = <<>> THEN acc
  ELSE LET task == Head(todo)
           variant == pickVariant(task, md.energy, md.sleep,
                                  availableMinutes - acc.minutesUsed, timePressure)
           duration == ScheduledDuration(task, variant)
       IN  CriticalPass(Tail(todo), md, availableMinutes, timePressure,
             IF CriticalAdmits(acc.minutesUsed, duration, availableMinutes)
             THEN [plan |-> Append(acc.plan,
                              Spread(task, [scheduledDuration |-> duration,
                                            variant |-> variant,
                                            compressed |-> timePressure /\ variant # Null])),
                   minutesUsed |-> acc.minutesUsed + duration]
             ELSE acc)

\* faulty variant (sensitivity test): the normal pass borrows the critical pass's grace band twice over
NormalAdmitsWithGrace(minutesUsed, duration, availableMinutes) ==
  minutesUsed + duration <= availableMinutes + 2 * GRACE_MINUTES

\* faulty variant (sensitivity test): the task is measured against the whole day
NormalAdmitsWholeDay(minutesUsed, duration, availableMinutes) ==
  duration <= availableMinutes

NormalAdmits(minutesUsed, duration, availableMinutes) ==
  minutesUsed + duration <= availableMinutes

\* for (const task of normal) { if (minutesUsed >= availableMinutes) break; ... }
\* past the break 0 <= minutesUsed < availableMinutes, so
\* minutesUsed / availableMinutes > 0.90 is 10 * minutesUsed > 9 * availableMinutes
RECURSIVE NormalPass(_, _, _, _)
NormalPass(todo, md, availableMinutes, acc) ==
  IF todo = <<>> \/ acc.minutesUsed >= availableMinutes THEN acc
  ELSE LET task == Head(todo)
           normalPressure == 10 * acc.minutesUsed > 9 * availableMinutes
           variant == pickVariant(task, md.energy, md.sleep,
                                  availableMinutes - acc.minutesUsed, normalPressure)
           duration == ScheduledDuration(task, variant)
       IN  NormalPass(Tail(todo), md, availableMinutes,
             IF NormalAdmits(acc.minutesUsed, duration, availableMinutes)
             THEN [plan |-> Append(acc.plan,
                              Spread(task, [scheduledDuration |-> duration,
                                            variant |-> variant,
                                            compressed |-> normalPressure /\ variant # Null])),
                   minutesUsed |-> acc.minutesUsed + duration]
             ELSE acc)

EffectiveDurationOf(t) == t.effectiveDuration

\* Math.min(...t.variants.map(v => v.duration_minutes))
ShortestVariant(t) ==
  CHOOSE d \in {t.variants[i].duration_minutes : i \in DOMAIN t.variants} :
    \A i \in DOMAIN t.variants : d <= t.variants[i].duration_minutes

CompressedDurationOf(t) ==
  IF t.variants = <<>> THEN t.effectiveDuration
  ELSE Min2(t.effectiveDuration, ShortestVariant(t))

\* faulty variant (sensitivity test): sort((a,b) => a.score - b.score)
ByScoreAscending(ts) == StableSort(ts, [i \in DOMAIN ts |-> ts[i].score])

\* sort((a,b) => b.score - a.score)
ByScore(ts) == StableSort(ts, [i \in DOMAIN ts |-> NegScore(ts[i])])

\* faulty variant (sensitivity test): canFitCompressed with < for <=
TimeAlertsStrictFit(critMinsNormal, critMinsCompressed, remainingForCritical) ==
  LET timePressure == critMinsNormal > remainingForCritical
      canFitCompressed == critMinsCompressed < remainingForCritical
  IN  IF timePressure
      THEN IF canFitCompressed
           THEN <<[type |-> "warning", message |-> "time_tight"]>>
           ELSE <<[type |-> "error", message |-> "time_short",
                   shortfall |-> critMinsCompressed - remainingForCritical]>>
      ELSE <<>>

\* the alerts pushed before the critical pass
TimeAlerts(critMinsNormal, critMinsCompressed, remainingForCritical) ==
  LET timePressure == critMinsNormal > remainingForCritical
      canFitCompressed == critMinsCompressed <= remainingForCritical
  IN  IF timePressure
      THEN IF canFitCompressed
           THEN <<[type |-> "warning", message |-> "time_tight"]>>
           ELSE <<[type |-> "error", message |-> "time_short",
                   shortfall |-> critMinsCompressed - remainingForCritical]>>
      ELSE <<>>

OverdueAlert(scored, ld, day) ==
  IF \E i \in DOMAIN scored : OverdueOver10(scored[i], Learned(ld, scored[i].id), day)
  THEN <<[type |-> "warning", message |-> "overdue"]>>
  ELSE <<>>

LowEnergyAlert(md) ==
  IF md.energy <= 3 \/ md.sleep = "terrible"
  THEN <<[type |-> "info", message |-> "low_energy"]>>
  ELSE <<>>

buildDayPlan(tsks, md, ld, day) ==
  LET availableMinutes == md.hours * 30
      all == [i \in DOMAIN tsks |-> scoreTask(tsks[i], md, ld, day)]
      Usable(t) == t # Null /\ ~t.blocked
      scored == SelectSeq(all, Usable)
      IsMandatory(t) == t.mandatory
      IsCritical(t) == ~t.mandatory /\ t.critical
      IsNormal(t) == ~t.mandatory /\ ~t.critical
      mandatory == ByScore(SelectSeq(scored, IsMandatory))
      critical == ByScore(SelectSeq(scored, IsCritical))
      normal == ByScore(SelectSeq(scored, IsNormal))
      IsBlockedToday(t) ==
        LET s == scoreTask(t, md, ld, day) IN s # Null /\ s.blocked
      blocked == SelectSeq(tsks, IsBlockedToday)
      afterMandatory == MandatoryPass(mandatory, md, availableMinutes,
                                      [plan |-> <<>>, minutesUsed |-> 0])
      remainingForCritical == availableMinutes - afterMandatory.minutesUsed
      critMinsNormal == LET xs == critical IN SumSeq([k \in DOMAIN xs |-> EffectiveDurationOf(xs[k])])
      critMinsCompressed == LET xs == critical IN SumSeq([k \in DOMAIN xs |-> CompressedDurationOf(xs[k])])
      timePressure == critMinsNormal > remainingForCritical
      afterCritical == CriticalPass(critical, md, availableMinutes, timePressure,
                                    afterMandatory)
      afterNormal == NormalPass(normal, md, availableMinutes, afterCritical)
  IN  [plan |-> afterNormal.plan,
       alerts |-> TimeAlerts(critMinsNormal, critMinsCompressed, remainingForCritical)
                    \o OverdueAlert(scored, ld, day) \o LowEnergyAlert(md),
       minutesUsed |-> afterNormal.minutesUsed,
       availableMinutes |-> availableMinutes,
       blocked |-> blocked]

\* ------------------------------------------------------------------ state
VARIABLES
  tasks,              \* useState(SAMPLE_TASKS), then storage "tasks_v2"
  learnedData,        \* id -> learned record
  morningData,        \* [sleep, hours, energy]
  today,              \* new Date(): [day, tz]
  dayPlan,            \* Null or the result of buildDayPlan
  completedTasks,     \* id -> [pts, lowEnergyBonus]
  actualTimes,        \* id -> minutes typed in the review panel
  actualEnergy,       \* id -> energy typed in the review panel
  feedbackLogged,     \* ids whose feedback points were granted
  reviewMode,
  pointsBank,
  pointsLog,
  perfectDayAwarded,
  timers,             \* pending setTimeout callbacks of markComplete, oldest first
  events,             \* events handled so far in the session
  calls               \* the latest calls of the function under analysis

planVars == <<tasks, learnedData, morningData, today, dayPlan>>
appVars == <<completedTasks, actualTimes, actualEnergy, feedbackLogged, reviewMode,
             pointsBank, pointsLog, perfectDayAwarded, timers, calls>>
vars == <<tasks, learnedData, morningData, today, dayPlan, completedTasks,
          actualTimes, actualEnergy, feedbackLogged, reviewMode, pointsBank, pointsLog,
          perfectDayAwarded, timers, events, calls>>

EmptyMap == [k \in {} |-> Null]

\* ------------------------------------------------------------ input sets
Variant(name, duration, energy) ==
  [name |-> name, duration_minutes |-> duration, energy_required |-> energy]

Task(id, mandatory, critical, energy, duration, frequency, deadline, days, variants, blockers) ==
  [id |-> id, mandatory |-> mandatory, critical |-> critical,
   energy_required |-> energy, duration_minutes |-> duration,
   frequency |-> frequency, deadline |-> deadline, days_available |-> days,
   variants |-> variants, blockers |-> blockers]

\* The sample tasks meds-am, lunch, q1-report, exercise and email-triage, and
\* tasks of the same shape that exercise blockers, weekday limits, long
\* mandatory work and variants longer than the nominal duration.
TaskCatalogue ==
  << Task("meds", TRUE, FALSE, 1, 2, "daily", 0, AllDays, <<>>, {}),
     Task("lunch", TRUE, FALSE, 2, 30, "daily", 0, AllDays,
          <<Variant("snack", 10, 1), Variant("sandwich", 20, 2),
            Variant("cook", 40, 4)>>, {}),
     Task("shift", TRUE, FALSE, 5, 120, "daily", 0, WeekDays, <<>>, {}),
     Task("dinner", TRUE, FALSE, 3, 45, "daily", 0, AllDays,
          <<Variant("takeaway", 10, 1), Variant("pasta", 25, 3),
            Variant("proper", 60, 5)>>, {"lunch"}),
     Task("report", FALSE, TRUE, 7, 60, "once", 12, WeekDays, <<>>, {}),
     Task("exercise", FALSE, TRUE, 7, 45, "3x_weekly", 0, AllDays,
          <<Variant("walk", 15, 3), Variant("moderate", 30, 6),
            Variant("full", 60, 9)>>, {}),
     Task("deepwork", FALSE, TRUE, 6, 140, "weekly", 0, {},
          <<Variant("long", 100, 6), Variant("short", 60, 4)>>, {}),
     Task("call", FALSE, TRUE, 3, 20, "weekly", 0, {},
          <<Variant("video", 30, 3)>>, {}),
     Task("email", FALSE, FALSE, 4, 30, "daily", 0, WeekDays, <<>>, {}),
     Task("review", FALSE, FALSE, 5, 45, "weekly", 0, WeekDays, <<>>, {"report"}),
     Task("tidy", FALSE, FALSE, 3, 30, "weekly", 0, AllDays,
          <<Variant("quick", 10, 2), Variant("proper", 25, 3)>>, {}) >>

TaskIds == {TaskCatalogue[i].id : i \in DOMAIN TaskCatalogue}

\* the catalogue's tasks at the indices of S, in catalogue order
RECURSIVE PickTasks(_, _)
PickTasks(S, i) ==
  IF i > Len(TaskCatalogue) THEN <<>>
  ELSE (IF i \in S THEN <<TaskCatalogue[i]>> ELSE <<>>) \o PickTasks(S, i + 1)

TaskLists ==
  {PickTasks(S, 1) : S \in {X \in SUBSET (DOMAIN TaskCatalogue) : Cardinality(X) <= MaxTasks}}

HoursChoices == (0 - 1)..MaxHours
EnergyChoices == {2, 6}
SleepChoices == {"ok", "terrible"}
\* a Thursday and the Sunday after it
Todays == {[day |-> 11, tz |-> 0], [day |-> 14, tz |-> 0]}

LearnedRecord(count, avg_duration, avg_energy, last_done, completed_today) ==
  [count |-> count, avg_duration |-> avg_duration, avg_energy |-> avg_energy,
   last_done |-> last_done, completed_today |-> completed_today]

\* learned histories a review can have left behind
LearnedChoices ==
  { EmptyMap,
    [k \in {"report"} |-> LearnedRecord(1, 50, 65, 11, TRUE)],
    [k \in {"email", "meds", "lunch"} |->
       IF k = "email" THEN LearnedRecord(2, 0, 0, 8, TRUE)
       ELSE IF k = "meds" THEN LearnedRecord(3, 5, 10, 10, TRUE)
       ELSE LearnedRecord(1, 25, 20, 11, TRUE)],
    [k \in {"deepwork"} |-> LearnedRecord(4, 30, 60, 9, FALSE)] }

\* ------------------------------------------- buildDayPlan as a function
AppIdle ==
  /\ completedTasks = EmptyMap
  /\ actualTimes = EmptyMap
  /\ actualEnergy = EmptyMap
  /\ feedbackLogged = {}
  /\ reviewMode = FALSE
  /\ pointsBank = 0
  /\ pointsLog = <<>>
  /\ perfectDayAwarded = FALSE
  /\ timers = <<>>
  /\ calls = <<>>

InitPlan ==
  /\ tasks \in TaskLists
  /\ morningData \in [sleep : SleepChoices, hours : HoursChoices, energy : EnergyChoices]
  /\ today \in Todays
  /\ learnedData \in LearnedChoices
  /\ dayPlan = Null
  /\ AppIdle
  /\ events = 0

CallBuildDayPlan ==
  /\ dayPlan = Null
  /\ dayPlan' = buildDayPlan(tasks, morningData, learnedData, today)
  /\ UNCHANGED <<tasks, learnedData, morningData, today, events>>
  /\ UNCHANGED appVars

NextPlan == CallBuildDayPlan

SpecPlan == InitPlan /\ [][NextPlan]_vars

\* ------------------------------------------------------- points economy
\* faulty variant (sensitivity test): one flat bonus for every low energy
getLowEnergyMultiplierFlat(morningEnergy) ==
  IF morningEnergy <= 4 THEN 15 ELSE 10

\* LOW_ENERGY_SCALE[morningEnergy] || 1.0, in tenths
getLowEnergyMultiplier(morningEnergy) ==
  CASE morningEnergy = 1 -> 30
    [] morningEnergy = 2 -> 25
    [] morningEnergy = 3 -> 20
    [] morningEnergy = 4 -> 15
    [] OTHER -> 10

\* Math.round(n / d) for n >= 0, d > 0: halves round up
RoundDiv(n, d) == (2 * n + d) \div (2 * d)

\* faulty variant (sensitivity test): no BASE_POINTS_MIN floor
calcTaskPointsNoFloor(task, morningEnergy) ==
  LET base == RoundDiv(task.energy_required * task.duration_minutes, 10)
      multiplier == getLowEnergyMultiplier(morningEnergy)
      lowEnergyBonus == multiplier > 10
      pts == IF lowEnergyBonus THEN RoundDiv(base * multiplier, 10) ELSE base
  IN  [base |-> base, pts |-> pts, lowEnergyBonus |-> lowEnergyBonus,
       multiplier |-> multiplier]

\* faulty variant (sensitivity test): the base counts the minutes only
calcTaskPointsMinutesOnly(task, morningEnergy) ==
  LET base == Max2(BASE_POINTS_MIN, RoundDiv(5 * task.duration_minutes, 10))
      multiplier == getLowEnergyMultiplier(morningEnergy)
      lowEnergyBonus == multiplier > 10
      pts == IF lowEnergyBonus THEN RoundDiv(base * multiplier, 10) ELSE base
  IN  [base |-> base, pts |-> pts, lowEnergyBonus |-> lowEnergyBonus,
       multiplier |-> multiplier]

calcTaskPoints(task, morningEnergy) ==
  LET base == Max2(BASE_POINTS_MIN,
                   RoundDiv(task.energy_required * task.duration_minutes, 10))
      multiplier == getLowEnergyMultiplier(morningEnergy)
      lowEnergyBonus == multiplier > 10
      pts == IF lowEnergyBonus THEN RoundDiv(base * multiplier, 10) ELSE base
  IN  [base |-> base, pts |-> pts, lowEnergyBonus |-> lowEnergyBonus,
       multiplier |-> multiplier]

\* ---------------------------------------------------------- the component
\* awardPoints as created in a render whose pointsBank and pointsLog were
\* bank and log: the values setPointsBank and setPointsLog receive
awardPoints(bank, log, pts, reason) ==
  LET newLog == <<[pts |-> pts, reason |-> reason]>> \o log
  IN  [bank |-> bank + pts,
       log |-> SubSeq(newLog, 1, Min2(Len(newLog), LOG_CAP))]

AppTaskLists ==
  { PickTasks({i \in DOMAIN TaskCatalogue : TaskCatalogue[i].id \in ids}, 1) :
      ids \in {{"report", "review"}, {"meds", "email"}} }
AppHoursChoices == {2, 16}
AppEnergyChoices == {2, 6}
AppSleepChoices == {"ok", "terrible"}
ActualMinutesChoices == {10, 20, 42}
ActualEnergyChoices == {7}
RewardCosts == {80, 300}

\* useState defaults; tasks as loaded from storage "tasks_v2"
Init ==
  /\ tasks \in AppTaskLists
  /\ learnedData = EmptyMap
  /\ morningData = [sleep |-> "ok", hours |-> 16, energy |-> 6]
  /\ today = [day |-> 11, tz |-> 0]
  /\ dayPlan = Null
  /\ AppIdle
  /\ events = 0

setMorningSleep(s) ==
  /\ morningData' = [morningData EXCEPT !.sleep = s]
  /\ UNCHANGED <<tasks, learnedData, today, dayPlan>>
  /\ UNCHANGED appVars

setMorningHours(h) ==
  /\ morningData' = [morningData EXCEPT !.hours = h]
  /\ UNCHANGED <<tasks, learnedData, today, dayPlan>>
  /\ UNCHANGED appVars

setMorningEnergy(e) ==
  /\ morningData' = [morningData EXCEPT !.energy = e]
  /\ UNCHANGED <<tasks, learnedData, today, dayPlan>>
  /\ UNCHANGED appVars

generatePlan ==
  /\ dayPlan' = buildDayPlan(tasks, morningData, learnedData, today)
  /\ completedTasks' = EmptyMap
  /\ actualTimes' = EmptyMap
  /\ actualEnergy' = EmptyMap
  /\ feedbackLogged' = {}
  /\ perfectDayAwarded' = FALSE
  /\ UNCHANGED <<tasks, learnedData, morningData, today, reviewMode,
                 pointsBank, pointsLog, timers>>

\* the check button of the i-th plan card
markComplete(i) ==
  /\ dayPlan # Null
  /\ i \in DOMAIN dayPlan.plan
  /\ LET task == dayPlan.plan[i]
         p == calcTaskPoints(task, morningData.energy)
         awarded == awardPoints(pointsBank, pointsLog, p.pts, task.id)
     IN  /\ task.id \notin DOMAIN completedTasks
         /\ completedTasks' =
              [k \in DOMAIN completedTasks \cup {task.id} |->
                 IF k = task.id THEN [pts |-> p.pts, lowEnergyBonus |-> p.lowEnergyBonus]
                 ELSE completedTasks[k]]
         /\ pointsBank' = awarded.bank
         /\ pointsLog' = awarded.log
         \* setTimeout(..., 400): the callback keeps this render's values
         /\ timers' = Append(timers,
              [total |-> Len(dayPlan.plan),
               nowDone |-> Cardinality(DOMAIN completedTasks) + 1,
               perfectDayAwarded |-> perfectDayAwarded,
               pointsBank |-> pointsBank, pointsLog |-> pointsLog])
  /\ UNCHANGED <<tasks, learnedData, morningData, today, dayPlan, actualTimes,
                 actualEnergy, feedbackLogged, reviewMode, perfectDayAwarded>>

\* the oldest pending setTimeout callback of markComplete runs
perfectDayTimer ==
  /\ timers # <<>>
  /\ LET c == Head(timers)
         awarded == awardPoints(c.pointsBank, c.pointsLog, PERFECT_DAY_BONUS, "perfect_day")
     IN  IF ~c.perfectDayAwarded /\ c.total > 0 /\ c.nowDone >= c.total
         THEN /\ perfectDayAwarded' = TRUE
              /\ pointsBank' = awarded.bank
              /\ pointsLog' = awarded.log
         ELSE UNCHANGED <<perfectDayAwarded, pointsBank, pointsLog>>
  /\ timers' = Tail(timers)
  /\ UNCHANGED <<tasks, learnedData, morningData, today, dayPlan, completedTasks,
                 actualTimes, actualEnergy, feedbackLogged, reviewMode>>

setReviewMode(on) ==
  /\ dayPlan # Null
  /\ reviewMode # on
  /\ reviewMode' = on
  /\ UNCHANGED <<tasks, learnedData, morningData, today, dayPlan, completedTasks,
                 actualTimes, actualEnergy, feedbackLogged, pointsBank, pointsLog,
                 perfectDayAwarded, timers>>

\* the review panel's inputs, one row per completed plan item
setActualTimes(id, minutes) ==
  /\ reviewMode
  /\ dayPlan # Null
  /\ id \in DOMAIN completedTasks
  /\ actualTimes' = [k \in DOMAIN actualTimes \cup {id} |->
                       IF k = id THEN minutes ELSE actualTimes[k]]
  /\ UNCHANGED <<tasks, learnedData, morningData, today, dayPlan, completedTasks,
                 actualEnergy, feedbackLogged, reviewMode, pointsBank, pointsLog,
                 perfectDayAwarded, timers>>

setActualEnergy(id, energy) ==
  /\ reviewMode
  /\ dayPlan # Null
  /\ id \in DOMAIN completedTasks
  /\ actualEnergy' = [k \in DOMAIN actualEnergy \cup {id} |->
                        IF k = id THEN energy ELSE actualEnergy[k]]
  /\ UNCHANGED <<tasks, learnedData, morningData, today, dayPlan, completedTasks,
                 actualTimes, feedbackLogged, reviewMode, pointsBank, pointsLog,
                 perfectDayAwarded, timers>>

\* parseInt(actualTimes[id]) || null and parseFloat(actualEnergy[id]) || null;
\* 0 stands for null
ActualMin(times, id) == IF id \in DOMAIN times THEN times[id] ELSE 0
ActualEng(energies, id) == IF id \in DOMAIN energies THEN energies[id] ELSE 0

\* faulty variant (sensitivity test): the latest actual replaces the average
applyReviewLatestOnly(prev, actualMin, actualEng, day) ==
  [count |-> prev.count + 1,
   last_done |-> day.day,
   completed_today |-> TRUE,
   avg_duration |-> IF actualMin # 0 THEN actualMin ELSE prev.avg_duration,
   avg_energy |-> IF actualEng # 0 THEN actualEng * 10 ELSE prev.avg_energy]

\* newLearned[id] of submitReview; avg_energy in tenths
applyReview(prev, actualMin, actualEng, day) ==
  LET count == prev.count + 1
  IN  [count |-> count,
       last_done |-> day.day,
       completed_today |-> TRUE,
       avg_duration |->
         IF actualMin # 0
         THEN RoundDiv(prev.avg_duration * (count - 1) + actualMin, count)
         ELSE prev.avg_duration,
       avg_energy |->
         IF actualEng # 0
         THEN RoundDiv(prev.avg_energy * (count - 1) + actualEng * 10, count)
         ELSE prev.avg_energy]

\* for (const id of Object.keys(completedTasks)) { ... } with the values of
\* the render that created submitReview: logFeedback and awardPoints read
\* pointsBank, pointsLog and feedbackLogged as they were then.
\* acc = [learned, bank, log, logged]
RECURSIVE ReviewLoop(_, _)
ReviewLoop(ids, acc) ==
  IF ids = {} THEN acc
  ELSE LET id == CHOOSE x \in ids : TRUE
           actualMin == ActualMin(actualTimes, id)
           actualEng == ActualEng(actualEnergy, id)
           record == applyReview(Learned(acc.learned, id), actualMin, actualEng, today)
           learned == [k \in DOMAIN acc.learned \cup {id} |->
                         IF k = id THEN record ELSE acc.learned[k]]
           awarded == awardPoints(pointsBank, pointsLog, FEEDBACK_POINTS, "feedback")
       IN  ReviewLoop(ids \ {id},
             IF actualMin # 0 /\ id \notin feedbackLogged
             THEN [learned |-> learned, bank |-> awarded.bank, log |-> awarded.log,
                   logged |-> acc.logged \cup {id}]
             ELSE [acc EXCEPT !.learned = learned])

submitReview ==
  /\ reviewMode
  /\ LET done == ReviewLoop(DOMAIN completedTasks,
                            [learned |-> learnedData, bank |-> pointsBank,
                             log |-> pointsLog, logged |-> feedbackLogged])
     IN  /\ learnedData' = done.learned
         /\ pointsBank' = done.bank
         /\ pointsLog' = done.log
         /\ feedbackLogged' = done.logged
  /\ reviewMode' = FALSE
  /\ UNCHANGED <<tasks, morningData, today, dayPlan, completedTasks, actualTimes,
                 actualEnergy, perfectDayAwarded, timers>>

\* faulty variant (sensitivity test): no test of the bank against the cost
redeemRewardUnguarded(cost) ==
  /\ LET newLog == <<[pts |-> 0 - cost, reason |-> "redeemed"]>> \o pointsLog
     IN  /\ pointsBank' = pointsBank - cost
         /\ pointsLog' = SubSeq(newLog, 1, Min2(Len(newLog), LOG_CAP))
  /\ UNCHANGED <<tasks, learnedData, morningData, today, dayPlan, completedTasks,
                 actualTimes, actualEnergy, feedbackLogged, reviewMode,
                 perfectDayAwarded, timers>>

redeemReward(cost) ==
  /\ IF pointsBank < cost
     THEN UNCHANGED <<pointsBank, pointsLog>>
     ELSE LET newLog == <<[pts |-> 0 - cost, reason |-> "redeemed"]>> \o pointsLog
          IN  /\ pointsBank' = pointsBank - cost
              /\ pointsLog' = SubSeq(newLog, 1, Min2(Len(newLog), LOG_CAP))
  /\ UNCHANGED <<tasks, learnedData, morningData, today, dayPlan, completedTasks,
                 actualTimes, actualEnergy, feedbackLogged, reviewMode,
                 perfectDayAwarded, timers>>

Handled == events < MaxEvents /\ events' = events + 1 /\ calls' = calls

Next ==
  \/ \E s \in AppSleepChoices : setMorningSleep(s) /\ Handled
  \/ \E h \in AppHoursChoices : setMorningHours(h) /\ Handled
  \/ \E e \in AppEnergyChoices : setMorningEnergy(e) /\ Handled
  \/ generatePlan /\ Handled
  \/ \E i \in 1..MaxTasks : markComplete(i) /\ Handled
  \/ perfectDayTimer /\ Handled
  \/ \E on \in BOOLEAN : setReviewMode(on) /\ Handled
  \/ \E id \in TaskIds, m \in ActualMinutesChoices : setActualTimes(id, m) /\ Handled
  \/ \E id \in TaskIds, e \in ActualEnergyChoices : setActualEnergy(id, e) /\ Handled
  \/ submitReview /\ Handled
  \/ \E c \in RewardCosts : redeemReward(c) /\ Handled

Spec == Init /\ [][Next]_vars

\* ------------------------------------------------ pickVariant as a function
\* the component at rest: no task list loaded, nothing planned
InitFn ==
  /\ tasks = <<>>
  /\ learnedData = EmptyMap
  /\ morningData = [sleep |-> "ok", hours |-> 16, energy |-> 6]
  /\ today = [day |-> 11, tz |-> 0]
  /\ dayPlan = Null
  /\ AppIdle
  /\ events = 0

VariantTasks == {TaskCatalogue[i] : i \in {j \in DOMAIN TaskCatalogue : TaskCatalogue[j].variants # <<>>}}
TimeRemainingChoices == {0 - 15, 0, 10, 15, 25, 30, 45, 60, 100, 120}
\* the tasks with variants and one without; energy 5 after an ok night gives
\* effectiveEnergy 5, midway between variants of energy 4 and 6
PickVariantTasks == VariantTasks \cup {TaskCatalogue[1]}
PickEnergyChoices == {2, 5, 6}

CallPickVariant ==
  /\ \E task \in PickVariantTasks, energy \in PickEnergyChoices, sleep \in SleepChoices,
        timeRemaining \in TimeRemainingChoices, timePressure \in BOOLEAN :
        calls' = <<[fn |-> "pickVariant", task |-> task, energy |-> energy,
                    sleep |-> sleep, timeRemaining |-> timeRemaining,
                    timePressure |-> timePressure,
                    result |-> pickVariant(task, energy, sleep, timeRemaining, timePressure)]>>
  /\ UNCHANGED <<tasks, learnedData, morningData, today, dayPlan, completedTasks,
                 actualTimes, actualEnergy, feedbackLogged, reviewMode, pointsBank,
                 pointsLog, perfectDayAwarded, timers, events>>

SpecPick == InitFn /\ [][CallPickVariant]_vars

\* --------------------------------------------- calcTaskPoints as a function
EnergyScale == 1..MAX_ENERGY
DurationChoices == {1, 2, 5, 30, 45, 60}
PointsTasks == [energy_required : EnergyScale, duration_minutes : DurationChoices]

InitPoints ==
  /\ tasks = <<>>
  /\ learnedData = EmptyMap
  /\ morningData \in [sleep : {"ok"}, hours : {16}, energy : EnergyScale]
  /\ today = [day |-> 11, tz |-> 0]
  /\ dayPlan = Null
  /\ AppIdle
  /\ events = 0

\* calls keeps the latest two calls, for the same morning energy
CallCalcTaskPoints ==
  /\ \E task \in PointsTasks :
        LET c == [fn |-> "calcTaskPoints", task |-> task,
                  morningEnergy |-> morningData.energy,
                  result |-> calcTaskPoints(task, morningData.energy)]
        IN  calls' = IF calls = <<>> THEN <<c>> ELSE <<calls[Len(calls)], c>>
  /\ UNCHANGED <<tasks, learnedData, morningData, today, dayPlan, completedTasks,
                 actualTimes, actualEnergy, feedbackLogged, reviewMode, pointsBank,
                 pointsLog, perfectDayAwarded, timers, events>>

SpecPoints == InitPoints /\ [][CallCalcTaskPoints]_vars

\* -------------------------------------------------- scoreTask as a function
\* hours east of UTC of the browser's time zone
TimezoneChoices == {0 - 5, 0, 2}
DeadlineChoices == {0, 5, 10, 11, 12, 13, 14, 15, 18, 19, 25, 26, 41, 42, 50}
DeadlineTasks ==
  {[TaskCatalogue[i] EXCEPT !.deadline = d] : i \in DOMAIN TaskCatalogue, d \in DeadlineChoices}

InitScore ==
  /\ tasks = <<>>
  /\ learnedData = EmptyMap
  /\ morningData = [sleep |-> "ok", hours |-> 16, energy |-> 6]
  /\ today \in [day : {11, 14}, tz : TimezoneChoices]
  /\ dayPlan = Null
  /\ AppIdle
  /\ events = 0

CallScoreTask ==
  /\ \E task \in DeadlineTasks :
        calls' = <<[fn |-> "scoreTask", task |-> task, today |-> today,
                    result |-> scoreTask(task, morningData, learnedData, today)]>>
  /\ UNCHANGED <<tasks, learnedData, morningData, today, dayPlan, completedTasks,
                 actualTimes, actualEnergy, feedbackLogged, reviewMode, pointsBank,
                 pointsLog, perfectDayAwarded, timers, events>>

SpecScore == InitScore /\ [][CallScoreTask]_vars

\* ======================================================== claims: the plan
Called == dayPlan # Null
TodayName == DayNames[(today.day % 7) + 1]
AvailableToday(t) == t.days_available = {} \/ TodayName \in t.days_available
HasOpenBlocker(t) ==
  \E b \in t.blockers : b \notin DOMAIN learnedData \/ ~learnedData[b].completed_today
PlanIds == {dayPlan.plan[i].id : i \in DOMAIN dayPlan.plan}
BlockedIds == {dayPlan.blocked[i].id : i \in DOMAIN dayPlan.blocked}
ScheduledOf(item) == item.scheduledDuration
PlanMinutes == LET xs == dayPlan.plan IN SumSeq([k \in DOMAIN xs |-> ScheduledOf(xs[k])])
IsMandatoryItem(item) == item.mandatory
IsCriticalItem(item) == ~item.mandatory /\ item.critical
IsNormalItem(item) == ~item.mandatory /\ ~item.critical
MandatoryMinutes == LET xs == SelectSeq(dayPlan.plan, IsMandatoryItem) IN SumSeq([k \in DOMAIN xs |-> ScheduledOf(xs[k])])
\* minutesUsed when the i-th plan item was considered
UsedBefore(n) == LET xs == SubSeq(dayPlan.plan, 1, n - 1) IN SumSeq([k \in DOMAIN xs |-> ScheduledOf(xs[k])])

\* C1 as stated: every task whose mandatory flag is true is in the plan.
C1_AllMandatoryPlanned ==
  Called => \A i \in DOMAIN tasks : tasks[i].mandatory => tasks[i].id \in PlanIds

\* C1 amended: every mandatory task that is available on today's weekday and
\* has no open blocker is in the plan, whatever availableMinutes is.
C1_MandatoryPlanned ==
  Called =>
    \A i \in DOMAIN tasks :
      (tasks[i].mandatory /\ AvailableToday(tasks[i]) /\ ~HasOpenBlocker(tasks[i]))
        => tasks[i].id \in PlanIds

C1_Witness ==
  /\ Called
  /\ dayPlan.availableMinutes = 0
  /\ \E i \in DOMAIN tasks : tasks[i].mandatory /\ tasks[i].id \in PlanIds
  /\ \E i \in DOMAIN dayPlan.plan :
        dayPlan.plan[i].mandatory /\ dayPlan.plan[i].scheduledDuration > 0

\* C2 as stated: the scheduled durations of a plan total at most
\* availableMinutes + 15 (here on a day with at least an hour available, the
\* least the check-in slider offers).
C2_WithinGrace ==
  (Called /\ morningData.hours >= 2) =>
    PlanMinutes <= dayPlan.availableMinutes + GRACE_MINUTES

\* C2 amended: the scheduled durations total at most availableMinutes + 15,
\* or the total of the mandatory items when that alone is larger.
C2_WithinGraceOrMandatory ==
  Called => PlanMinutes <= Max2(dayPlan.availableMinutes + GRACE_MINUTES, MandatoryMinutes)

C2_Witness ==
  /\ Called
  /\ PlanMinutes > dayPlan.availableMinutes
  /\ PlanMinutes > MandatoryMinutes
  /\ dayPlan.availableMinutes > 0

\* C7 as stated: with availableMinutes <= 0 every mandatory task (available
\* today and unblocked, as in C1) is in the plan and the plan holds no
\* critical-tier and no normal-tier item.
C7_OnlyMandatoryWhenNoTime ==
  (Called /\ dayPlan.availableMinutes <= 0) =>
    /\ \A i \in DOMAIN tasks :
         (tasks[i].mandatory /\ AvailableToday(tasks[i]) /\ ~HasOpenBlocker(tasks[i]))
           => tasks[i].id \in PlanIds
    /\ \A i \in DOMAIN dayPlan.plan : dayPlan.plan[i].mandatory

\* C7 amended: with availableMinutes <= 0 every mandatory task that is
\* available today and unblocked is in the plan, no normal-tier item is, and
\* a critical-tier item is in the plan only if it fitted the 15-minute grace
\* band when considered (so none is when availableMinutes < -15).
C7_NoTimePolicy ==
  (Called /\ dayPlan.availableMinutes <= 0) =>
    /\ \A i \in DOMAIN tasks :
         (tasks[i].mandatory /\ AvailableToday(tasks[i]) /\ ~HasOpenBlocker(tasks[i]))
           => tasks[i].id \in PlanIds
    /\ \A i \in DOMAIN dayPlan.plan :
         /\ ~IsNormalItem(dayPlan.plan[i])
         /\ IsCriticalItem(dayPlan.plan[i]) =>
              /\ UsedBefore(i) + dayPlan.plan[i].scheduledDuration
                    <= dayPlan.availableMinutes + GRACE_MINUTES
              /\ dayPlan.availableMinutes >= 0 - GRACE_MINUTES

C7_Witness ==
  /\ Called
  /\ dayPlan.availableMinutes <= 0
  /\ \E i \in DOMAIN dayPlan.plan : IsCriticalItem(dayPlan.plan[i])
  /\ \E i \in DOMAIN tasks : IsNormalItem(tasks[i]) /\ AvailableToday(tasks[i])
                                /\ ~HasOpenBlocker(tasks[i])

\* C8 as stated: a task with an open blocker is scored 0 and blocked, is not
\* in the plan, adds nothing to minutesUsed and is in the blocked list; a task
\* whose blockers all have completed_today is not in the blocked list.
C8_BlockedReported ==
  Called =>
    /\ dayPlan.minutesUsed = PlanMinutes
    /\ \A i \in DOMAIN tasks :
         LET s == scoreTask(tasks[i], morningData, learnedData, today)
         IN  IF HasOpenBlocker(tasks[i])
             THEN /\ s # Null /\ s.blocked /\ s.score = 0
                  /\ tasks[i].id \notin PlanIds
                  /\ tasks[i].id \in BlockedIds
             ELSE tasks[i].id \notin BlockedIds

\* C8 amended: the same, for a task that is available on today's weekday; a
\* task that is not available today is not in the blocked list.
C8_BlockedReportedIfAvailable ==
  Called =>
    /\ dayPlan.minutesUsed = PlanMinutes
    /\ \A i \in DOMAIN tasks :
         LET s == scoreTask(tasks[i], morningData, learnedData, today)
         IN  IF HasOpenBlocker(tasks[i]) /\ AvailableToday(tasks[i])
             THEN /\ s # Null /\ s.blocked /\ s.score = 0
                  /\ tasks[i].id \notin PlanIds
                  /\ tasks[i].id \in BlockedIds
             ELSE tasks[i].id \notin BlockedIds

C8_Witness ==
  /\ Called
  /\ dayPlan.blocked # <<>>
  /\ dayPlan.plan # <<>>
  /\ dayPlan.minutesUsed < dayPlan.availableMinutes

\* C9: a task whose days_available is non-empty and lacks today's weekday is
\* scored null and is neither in the plan nor in the blocked list, open
\* blockers or not.
C9_WeekdayFilter ==
  Called =>
    \A i \in DOMAIN tasks :
      (tasks[i].days_available # {} /\ TodayName \notin tasks[i].days_available) =>
        /\ scoreTask(tasks[i], morningData, learnedData, today) = Null
        /\ tasks[i].id \notin PlanIds
        /\ tasks[i].id \notin BlockedIds

C9_Witness ==
  /\ Called
  /\ \E i \in DOMAIN tasks :
        /\ tasks[i].days_available # {}
        /\ TodayName \notin tasks[i].days_available
        /\ HasOpenBlocker(tasks[i])
  /\ dayPlan.plan # <<>>

ScoredNow == [i \in DOMAIN tasks |-> scoreTask(tasks[i], morningData, learnedData, today)]
IsCriticalTier(s) == s # Null /\ ~s.blocked /\ ~s.mandatory /\ s.critical
CritTier == SelectSeq(ScoredNow, IsCriticalTier)
MinOf(S) == CHOOSE m \in S : \A x \in S : m <= x
CompressedOf(s) ==
  MinOf({s.effectiveDuration}
          \cup {s.variants[i].duration_minutes : i \in DOMAIN s.variants})
CritNominal == LET xs == CritTier IN SumSeq([k \in DOMAIN xs |-> EffectiveDurationOf(xs[k])])
CritCompressed == LET xs == CritTier IN SumSeq([k \in DOMAIN xs |-> CompressedOf(xs[k])])
RemainingForCritical == dayPlan.availableMinutes - MandatoryMinutes
IsTimeAlert(a) == a.message \in {"time_tight", "time_short"}
TimeAlertsOf == SelectSeq(dayPlan.alerts, IsTimeAlert)

\* C10: the critical pass is under time pressure exactly when the critical
\* tier's effective durations total more than availableMinutes minus the
\* mandatory minutes; then exactly one time alert is emitted, the warning
\* when the compressed total fits what remains and the error otherwise;
\* without pressure no time alert is emitted and no critical item is
\* marked compressed.
C10_TimePressureAlert ==
  Called =>
    IF CritNominal > RemainingForCritical
    THEN /\ Len(TimeAlertsOf) = 1
         /\ IF CritCompressed <= RemainingForCritical
            THEN TimeAlertsOf[1].type = "warning" /\ TimeAlertsOf[1].message = "time_tight"
            ELSE TimeAlertsOf[1].type = "error" /\ TimeAlertsOf[1].message = "time_short"
         /\ \A i \in DOMAIN dayPlan.plan :
              IsCriticalItem(dayPlan.plan[i]) =>
                dayPlan.plan[i].compressed = (dayPlan.plan[i].variant # Null)
    ELSE /\ TimeAlertsOf = <<>>
         /\ \A i \in DOMAIN dayPlan.plan :
              IsCriticalItem(dayPlan.plan[i]) => ~dayPlan.plan[i].compressed

\* 200 minutes nominal, 120 compressed, 150 remaining: a warning, no error
C10_Witness ==
  /\ Called
  /\ CritNominal = 200
  /\ CritCompressed = 120
  /\ RemainingForCritical = 150
  /\ TimeAlertsOf = <<[type |-> "warning", message |-> "time_tight"]>>

\* =================================================== claims: the component
PerfectDayEntries == {i \in DOMAIN pointsLog : pointsLog[i].reason = "perfect_day"}

\* C3: within one day the perfect-day bonus is credited at most once, also
\* when the plan is generated again after a perfect day (today never
\* changes in a session, so every ledger entry is of the same day).
C3_BonusOncePerDay == Cardinality(PerfectDayEntries) <= 1

\* the completed tasks submitReview logs an actual duration for and that
\* have no feedback points yet in the current plan
NewlyLogged ==
  {id \in DOMAIN completedTasks : ActualMin(actualTimes, id) # 0 /\ id \notin feedbackLogged}

\* C4: a submitReview that logs actuals for k tasks not yet credited raises
\* the points bank by 15 * k and marks each of them credited.
C4_FeedbackPerTask ==
  [][submitReview =>
       /\ pointsBank' = pointsBank + FEEDBACK_POINTS * Cardinality(NewlyLogged)
       /\ feedbackLogged' = feedbackLogged \cup NewlyLogged]_vars

\* C5: the ledger is append-only: a step leaves the points log as it is or
\* puts exactly one new entry in front of the entries recorded so far.
C5_LedgerAppendOnly ==
  [][\/ pointsLog' = pointsLog
     \/ /\ Len(pointsLog') = Len(pointsLog) + 1
        /\ Tail(pointsLog') = pointsLog]_vars

\* C6: completed_today is reset when a new planning run starts, so a plan
\* just generated (nothing is completed in its run yet) holds no task that
\* lists a blocker.
C6_ResetEachRun ==
  [][generatePlan =>
       \A i \in DOMAIN dayPlan'.plan : dayPlan'.plan[i].blockers = {}]_vars

\* ================================================== claims: the plan order
TierOf(item) == IF item.mandatory THEN 1 ELSE IF item.critical THEN 2 ELSE 3
PositionOf(id) == CHOOSE i \in DOMAIN tasks : tasks[i].id = id

\* C16: the plan lists the mandatory items, then the critical ones, then the
\* normal ones; inside a tier the scores do not increase; every scored,
\* unblocked task is of exactly one tier, and every plan item is such a task.
C16_TierOrder ==
  Called =>
    /\ \A i, j \in DOMAIN dayPlan.plan :
         i < j =>
           /\ TierOf(dayPlan.plan[i]) <= TierOf(dayPlan.plan[j])
           /\ TierOf(dayPlan.plan[i]) = TierOf(dayPlan.plan[j])
                => dayPlan.plan[i].score >= dayPlan.plan[j].score
    /\ \A i \in DOMAIN ScoredNow :
         LET s == ScoredNow[i]
         IN  (s # Null /\ ~s.blocked) =>
               Cardinality({t \in {"mandatory", "critical", "normal"} :
                              \/ t = "mandatory" /\ IsMandatoryItem(s)
                              \/ t = "critical" /\ IsCriticalItem(s)
                              \/ t = "normal" /\ IsNormalItem(s)}) = 1
    /\ \A i \in DOMAIN dayPlan.plan :
         \E k \in DOMAIN ScoredNow :
           /\ ScoredNow[k] # Null /\ ~ScoredNow[k].blocked
           /\ ScoredNow[k].id = dayPlan.plan[i].id
           /\ ScoredNow[k].score = dayPlan.plan[i].score

\* a plan of two tiers in which two items of one tier stand in score order
\* against their order in the task list, and an item of the later tier
\* outscores one of the earlier tier
C16_Witness ==
  /\ Called
  /\ \E i, j, k \in DOMAIN dayPlan.plan :
        /\ i < j
        /\ TierOf(dayPlan.plan[i]) = TierOf(dayPlan.plan[j])
        /\ dayPlan.plan[i].score > dayPlan.plan[j].score
        /\ PositionOf(dayPlan.plan[i].id) > PositionOf(dayPlan.plan[j].id)
        /\ TierOf(dayPlan.plan[k]) # TierOf(dayPlan.plan[i])
  /\ \E a, b \in DOMAIN dayPlan.plan :
        /\ a < b
        /\ TierOf(dayPlan.plan[a]) < TierOf(dayPlan.plan[b])
        /\ dayPlan.plan[a].score < dayPlan.plan[b].score

\* ================================================ claims: the admission
\* the critical tier in the order the critical pass takes it
CritSorted == ByScore(CritTier)
PlanItemOf(id) == dayPlan.plan[CHOOSE i \in DOMAIN dayPlan.plan : dayPlan.plan[i].id = id]
\* minutesUsed when the n-th critical task is considered
CritUsedBefore(n) ==
  MandatoryMinutes
    + SumSeq([m \in 1..(n - 1) |->
               IF CritSorted[m].id \in PlanIds
               THEN PlanItemOf(CritSorted[m].id).scheduledDuration ELSE 0])
\* the duration the n-th critical task is offered at
CritDurationAt(n) ==
  ScheduledDuration(CritSorted[n],
    pickVariant(CritSorted[n], morningData.energy, morningData.sleep,
                dayPlan.availableMinutes - CritUsedBefore(n),
                CritNominal > RemainingForCritical))

\* C19: a critical task is in the plan if and only if, when its turn came in
\* score order, minutesUsed plus its scheduled duration was at most
\* availableMinutes + 15; tasks after a rejected one are still considered.
C19_CriticalAdmission ==
  Called =>
    \A n \in DOMAIN CritSorted :
      /\ (CritSorted[n].id \in PlanIds)
           = (CritUsedBefore(n) + CritDurationAt(n) <= dayPlan.availableMinutes + GRACE_MINUTES)
      /\ CritSorted[n].id \in PlanIds =>
           PlanItemOf(CritSorted[n].id).scheduledDuration = CritDurationAt(n)

\* a critical task is rejected and a lower-scored one after it is admitted
C19_Witness ==
  /\ Called
  /\ \E m, n \in DOMAIN CritSorted :
        /\ m < n
        /\ CritSorted[m].score > CritSorted[n].score
        /\ CritSorted[m].id \notin PlanIds
        /\ CritSorted[n].id \in PlanIds

NormalTierNow(s) == s # Null /\ ~s.blocked /\ ~s.mandatory /\ ~s.critical

\* C20: a normal-tier item is admitted only while minutesUsed is below
\* availableMinutes and only if minutesUsed plus its scheduled duration is
\* at most availableMinutes: with a normal item in the plan the plan's
\* minutes never exceed availableMinutes.
C20_NormalAdmission ==
  Called =>
    \A i \in DOMAIN dayPlan.plan :
      IsNormalItem(dayPlan.plan[i]) =>
        /\ UsedBefore(i) < dayPlan.availableMinutes
        /\ UsedBefore(i) + dayPlan.plan[i].scheduledDuration <= dayPlan.availableMinutes
        /\ dayPlan.minutesUsed <= dayPlan.availableMinutes

\* a normal item is in the plan and another normal task, which the grace
\* band of the critical pass would have let in, is left out
C20_Witness ==
  /\ Called
  /\ \E i \in DOMAIN dayPlan.plan : IsNormalItem(dayPlan.plan[i])
  /\ \E k \in DOMAIN ScoredNow :
        /\ NormalTierNow(ScoredNow[k])
        /\ ScoredNow[k].id \notin PlanIds
        /\ ScoredNow[k].variants = <<>>
        /\ dayPlan.minutesUsed + ScoredNow[k].effectiveDuration
              <= dayPlan.availableMinutes + GRACE_MINUTES

\* ============================================== claims: the pure functions
SomeVariantFits(c) ==
  \E i \in DOMAIN c.task.variants : c.task.variants[i].duration_minutes <= c.timeRemaining

\* C11: pickVariant under time pressure, on a task with variants, returns
\* one of the task's variants, and one that lasts at most timeRemaining
\* whenever any variant of the task does.
C11_PressureFits ==
  \A n \in DOMAIN calls :
    LET c == calls[n]
    IN  (c.fn = "pickVariant" /\ c.timePressure /\ c.task.variants # <<>>) =>
          /\ \E i \in DOMAIN c.task.variants : c.result = c.task.variants[i]
          /\ SomeVariantFits(c) => c.result.duration_minutes <= c.timeRemaining

\* a call under pressure where the first listed variant is too long and a
\* later one fits
C11_Witness ==
  /\ calls # <<>>
  /\ calls[1].fn = "pickVariant"
  /\ calls[1].timePressure
  /\ calls[1].task.variants # <<>>
  /\ calls[1].task.variants[1].duration_minutes > calls[1].timeRemaining
  /\ SomeVariantFits(calls[1])
  /\ calls[1].result.duration_minutes <= calls[1].timeRemaining

IsPointsCall(c) == c.fn = "calcTaskPoints"
Product(c) == c.task.energy_required * c.task.duration_minutes

\* C12: for energy_required in 1..10, duration_minutes >= 1 and morning
\* energy in 1..10, calcTaskPoints returns pts >= 1 and base >= 1.
C12_PointsFloor ==
  \A n \in DOMAIN calls :
    IsPointsCall(calls[n]) => calls[n].result.pts >= 1 /\ calls[n].result.base >= 1

\* energy 1 for 1 minute on a morning of energy 1: 0.1 rounds to 0, the floor
\* lifts the base to 1 and the multiplier 3.0 gives 3 points
C12_Witness ==
  /\ calls # <<>>
  /\ IsPointsCall(calls[1])
  /\ Product(calls[1]) = 1
  /\ calls[1].result.base = 1
  /\ calls[1].result.pts = 3

\* C13: for a fixed morning energy the points do not decrease when
\* energy_required * duration_minutes grows.
C13_Monotone ==
  \A m, n \in DOMAIN calls :
    (IsPointsCall(calls[m]) /\ IsPointsCall(calls[n])
       /\ calls[m].morningEnergy = calls[n].morningEnergy
       /\ Product(calls[m]) <= Product(calls[n]))
      => calls[m].result.pts <= calls[n].result.pts

\* two calls whose products differ by one and straddle a rounding step, the
\* longer task being the one that asks for less energy
C13_Witness ==
  /\ Len(calls) = 2
  /\ IsPointsCall(calls[1]) /\ IsPointsCall(calls[2])
  /\ Product(calls[1]) < Product(calls[2])
  /\ calls[1].task.duration_minutes > calls[2].task.duration_minutes
  /\ calls[1].result.pts < calls[2].result.pts

\* C14: the multiplier is 3.0, 2.5, 2.0, 1.5 for morning energy 1, 2, 3, 4
\* and 1.0 from 5 up; lowEnergyBonus is true exactly when it exceeds 1.0;
\* pts is base * multiplier rounded to the nearest integer, halves up, under
\* the bonus and base otherwise.
C14_Multiplier ==
  \A n \in DOMAIN calls :
    LET c == calls[n]
        r == c.result
        x10 == r.base * r.multiplier
    IN  IsPointsCall(c) =>
          /\ r.multiplier = (CASE c.morningEnergy = 1 -> 30
                               [] c.morningEnergy = 2 -> 25
                               [] c.morningEnergy = 3 -> 20
                               [] c.morningEnergy = 4 -> 15
                               [] c.morningEnergy >= 5 -> 10)
          /\ r.lowEnergyBonus = (r.multiplier > 10)
          /\ IF r.lowEnergyBonus
             THEN 10 * r.pts <= x10 + 5 /\ x10 + 5 < 10 * r.pts + 10
             ELSE r.pts = r.base

\* energy 2, energy_required 5, 30 minutes: base 15, 38 points, bonus
C14_Witness ==
  /\ calls # <<>>
  /\ IsPointsCall(calls[1])
  /\ calls[1].morningEnergy = 2
  /\ calls[1].task = [energy_required |-> 5, duration_minutes |-> 30]
  /\ calls[1].result.base = 15
  /\ calls[1].result.pts = 38
  /\ calls[1].result.lowEnergyBonus

\* ==================================================== claims: the learning
\* C15: submitReview gives every completed task the record count + 1,
\* last_done today, completed_today true and, when an actual duration was
\* typed, avg_duration = round((avg_duration * count + actual) / (count + 1))
\* (halves up), the old avg_duration otherwise.
C15_IncrementalMean ==
  [][submitReview =>
       \A id \in DOMAIN completedTasks :
         LET prev == Learned(learnedData, id)
             new == learnedData'[id]
             actual == ActualMin(actualTimes, id)
             total == prev.avg_duration * prev.count + actual
         IN  /\ new.count = prev.count + 1
             /\ new.last_done = today.day
             /\ new.completed_today
             /\ IF actual # 0
                THEN /\ 2 * new.count * new.avg_duration <= 2 * total + new.count
                     /\ 2 * total + new.count < 2 * new.count * (new.avg_duration + 1)
                ELSE new.avg_duration = prev.avg_duration
             /\ (prev.count = 0 /\ actual = 42) => new.avg_duration = 42]_vars

\* two reviews of one task, 10 minutes and then 20: average 15, count 2
C15_Witness ==
  \E id \in DOMAIN learnedData :
    /\ learnedData[id].count = 2
    /\ learnedData[id].avg_duration = 15
    /\ ActualMin(actualTimes, id) = 20
    /\ ~reviewMode

\* =================================================== claims: the urgency
\* the bands on whole days from today's date to the deadline's date
UrgencyBand(daysLeft) ==
  IF daysLeft <= 0 THEN 30
  ELSE IF daysLeft <= 1 THEN 28
  ELSE IF daysLeft <= 3 THEN 22
  ELSE IF daysLeft <= 7 THEN 16
  ELSE IF daysLeft <= 14 THEN 10
  ELSE IF daysLeft <= 30 THEN 5
  ELSE 1

\* C17: the urgency scoreTask reports is 0 without a deadline and otherwise
\* the band of the days from today to the deadline; a deadline today or in
\* the past gives 30.
C17_UrgencyBands ==
  \A n \in DOMAIN calls :
    LET c == calls[n]
    IN  (c.fn = "scoreTask" /\ c.result # Null /\ ~c.result.blocked) =>
          /\ c.task.deadline = 0 => c.result.urgency = 0
          /\ c.task.deadline # 0 =>
               c.result.urgency = UrgencyBand(c.task.deadline - c.today.day) * ScoreScale
          /\ (c.task.deadline # 0 /\ c.task.deadline <= c.today.day) =>
               c.result.urgency = 30 * ScoreScale

\* =================================================== claims: the rewards
\* C18: a redemption with the bank at least the cost lowers the bank by
\* exactly the cost and records one negative ledger entry; with the bank
\* below the cost it leaves bank and ledger alone; and the bank is never
\* negative, whatever awards and redemptions have happened.
C18_RedeemGuarded ==
  /\ [](pointsBank >= 0)
  /\ [][\A cost \in RewardCosts :
          redeemReward(cost) =>
            IF pointsBank >= cost
            THEN /\ pointsBank' = pointsBank - cost
                 /\ pointsLog' = <<[pts |-> 0 - cost, reason |-> "redeemed"]>> \o pointsLog
            ELSE pointsBank' = pointsBank /\ pointsLog' = pointsLog]_vars

\* a reward of 80 was redeemed and the bank no longer affords another
C18_Witness ==
  /\ pointsLog # <<>>
  /\ Head(pointsLog) = [pts |-> 0 - 80, reason |-> "redeemed"]
  /\ pointsBank < 80

\* ============================================ claims: the choice of variant
VariantsOf(c) == {c.task.variants[i] : i \in DOMAIN c.task.variants}
FittingOf(c) == {v \in VariantsOf(c) : v.duration_minutes <= c.timeRemaining}
\* three times the distance of a variant's energy from effectiveEnergy
\* = (energy + sleepScore / 2) / 1.5
Distance3(v, c) == Abs(3 * v.energy_required - (2 * c.energy + SLEEP_SCORES(c.sleep)))
IsShortestOf(v, S) == v \in S /\ \A w \in S : v.duration_minutes <= w.duration_minutes

\* C21: without time pressure pickVariant returns null for a task without
\* variants; the shortest variant when none fits timeRemaining; the shortest
\* fitting variant when effectiveEnergy < 3.5 (2 * energy + sleepScore <
\* 10.5); and otherwise the fitting variant nearest in energy to
\* effectiveEnergy, the shorter one of equally near variants.
C21_Unpressured ==
  \A n \in DOMAIN calls :
    LET c == calls[n]
    IN  (c.fn = "pickVariant" /\ ~c.timePressure) =>
          IF c.task.variants = <<>> THEN c.result = Null
          ELSE IF FittingOf(c) = {} THEN IsShortestOf(c.result, VariantsOf(c))
          ELSE IF 2 * (2 * c.energy + SLEEP_SCORES(c.sleep)) < 21
               THEN IsShortestOf(c.result, FittingOf(c))
          ELSE /\ c.result \in FittingOf(c)
               /\ \A w \in FittingOf(c) :
                    /\ Distance3(c.result, c) <= Distance3(w, c)
                    /\ Distance3(c.result, c) = Distance3(w, c)
                         => c.result.duration_minutes <= w.duration_minutes

\* effectiveEnergy 5 and fitting variants of energy 4 (60 minutes) and 6
\* (100 minutes): the shorter of the two equally near variants is returned
C21_Witness ==
  /\ calls # <<>>
  /\ calls[1].fn = "pickVariant"
  /\ ~calls[1].timePressure
  /\ calls[1].task.id = "deepwork"
  /\ calls[1].energy = 5 /\ calls[1].sleep = "ok"
  /\ calls[1].timeRemaining >= 100
  /\ calls[1].result = Variant("short", 60, 4)

\* ============================================ claims: the learned estimates
HasRecord(id) == id \in DOMAIN learnedData
ScoredTasksNow == {ScoredNow[i] : i \in {k \in DOMAIN ScoredNow : ScoredNow[k] # Null}}
NominalOf(id) == tasks[PositionOf(id)]

\* C22 as stated: with a learned record the effective duration and energy
\* are the record's averages, without one the task's nominal values.
C22_LearnedWheneverPresent ==
  Called =>
    \A s \in ScoredTasksNow :
      IF HasRecord(s.id)
      THEN /\ s.effectiveDuration = learnedData[s.id].avg_duration
           /\ s.effectiveEnergy = learnedData[s.id].avg_energy
      ELSE /\ s.effectiveDuration = s.duration_minutes
           /\ s.effectiveEnergy = s.energy_required * 10

\* C22 amended: the effective duration is the record's avg_duration when a
\* record exists and its avg_duration is not 0, the nominal duration
\* otherwise; likewise, and independently, for the energy. Plan items carry
\* the same values.
C22_LearnedWhenMeasured ==
  Called =>
    /\ \A s \in ScoredTasksNow :
         /\ s.effectiveDuration =
              (IF HasRecord(s.id) /\ learnedData[s.id].avg_duration # 0
               THEN learnedData[s.id].avg_duration ELSE s.duration_minutes)
         /\ s.effectiveEnergy =
              (IF HasRecord(s.id) /\ learnedData[s.id].avg_energy # 0
               THEN learnedData[s.id].avg_energy ELSE s.energy_required * 10)
    /\ \A i \in DOMAIN dayPlan.plan :
         \E s \in ScoredTasksNow :
           /\ s.id = dayPlan.plan[i].id
           /\ s.effectiveDuration = dayPlan.plan[i].effectiveDuration
           /\ s.effectiveEnergy = dayPlan.plan[i].effectiveEnergy

\* a plan with a task whose record holds no measured average (planned at
\* its nominal duration) and one whose record does (planned at the average)
C22_Witness ==
  /\ Called
  /\ \E i, j \in DOMAIN dayPlan.plan :
        /\ HasRecord(dayPlan.plan[i].id)
        /\ learnedData[dayPlan.plan[i].id].avg_duration = 0
        /\ dayPlan.plan[i].effectiveDuration = NominalOf(dayPlan.plan[i].id).duration_minutes
        /\ HasRecord(dayPlan.plan[j].id)
        /\ learnedData[dayPlan.plan[j].id].avg_duration # 0
        /\ dayPlan.plan[j].effectiveDuration = learnedData[dayPlan.plan[j].id].avg_duration
        /\ dayPlan.plan[j].effectiveDuration # NominalOf(dayPlan.plan[j].id).duration_minutes

\* ==================================================== claims: the alerts
SomeOverdueOver10 ==
  \E s \in ScoredTasksNow : ~s.blocked /\ OverdueOver10(s, Learned(learnedData, s.id), today)
OverdueAlertsOf == {i \in DOMAIN dayPlan.alerts : dayPlan.alerts[i].message = "overdue"}

\* C23: the plan carries one alert "overdue tasks auto-promoted", of
\* severity info, exactly when a scored, unblocked task has an overdue bonus
\* above 10 (on a day with at least the hour the check-in slider starts at).
C23_OverdueInfoAlert ==
  (Called /\ morningData.hours >= 2) =>
    IF SomeOverdueOver10
    THEN /\ Cardinality(OverdueAlertsOf) = 1
         /\ \A i \in OverdueAlertsOf : dayPlan.alerts[i].type = "info"
    ELSE OverdueAlertsOf = {}

LowEnergyAlertsOf == {i \in DOMAIN dayPlan.alerts : dayPlan.alerts[i].message = "low_energy"}

\* C24: the plan carries the info alert "low-energy bonus active" exactly
\* when morning energy <= 3 or sleep is terrible, and exactly when
\* calcTaskPoints gives the day's tasks a low-energy bonus (on a day with at
\* least the hour the check-in slider starts at).
C24_LowEnergyAlertMatchesBonus ==
  (Called /\ morningData.hours >= 2) =>
    /\ (LowEnergyAlertsOf # {}) = (morningData.energy <= 3 \/ morningData.sleep = "terrible")
    /\ \A i \in LowEnergyAlertsOf : dayPlan.alerts[i].type = "info"
    /\ \A k \in DOMAIN dayPlan.plan :
         (LowEnergyAlertsOf # {})
           = calcTaskPoints(dayPlan.plan[k], morningData.energy).lowEnergyBonus

\* =================================================== claims: the bank
\* the pending timer callback that runs next grants the perfect-day bonus
TimerAwards ==
  /\ timers # <<>>
  /\ ~Head(timers).perfectDayAwarded
  /\ Head(timers).total > 0
  /\ Head(timers).nowDone >= Head(timers).total

\* C25: the bank is the sum of the points awarded minus the costs redeemed:
\* every step changes it by exactly what the step awards or redeems (a
\* completion by the task's points, the timer of the last completion by
\* 200, a review by 15 per newly logged task, a redemption by the cost).
C25_BankIsSumOfLedger ==
  [][/\ \A i \in 1..MaxTasks :
          markComplete(i) =>
            pointsBank' = pointsBank + calcTaskPoints(dayPlan.plan[i], morningData.energy).pts
     /\ perfectDayTimer =>
          pointsBank' = pointsBank + (IF TimerAwards THEN PERFECT_DAY_BONUS ELSE 0)
     /\ submitReview =>
          pointsBank' = pointsBank + FEEDBACK_POINTS * Cardinality(NewlyLogged)
     /\ \A cost \in RewardCosts :
          redeemReward(cost) =>
            pointsBank' = pointsBank - (IF pointsBank >= cost THEN cost ELSE 0)]_vars

\* =============================================== claims: the time pressure
TimeTightWarning ==
  \E i \in DOMAIN dayPlan.alerts :
    dayPlan.alerts[i].type = "warning" /\ dayPlan.alerts[i].message = "time_tight"
CriticalMinutes ==
  LET xs == SelectSeq(dayPlan.plan, IsCriticalItem)
  IN  SumSeq([k \in DOMAIN xs |-> ScheduledOf(xs[k])])

\* C26: when the plan carries the warning "time is tight, switching to
\* shorter variants", every critical-tier task is in the plan and the
\* minutes used after the critical pass are at most availableMinutes + 15
\* (on a day with at least the hour the check-in slider starts at).
C26_WarningMeansAllCriticalFit ==
  (Called /\ morningData.hours >= 2 /\ TimeTightWarning) =>
    /\ \A n \in DOMAIN CritTier : CritTier[n].id \in PlanIds
    /\ MandatoryMinutes + CriticalMinutes <= dayPlan.availableMinutes + GRACE_MINUTES

\* ============================================ claims: the result as a whole
IsPinned(item) == "pinned" \in DOMAIN item /\ item.pinned

\* C27: the result of buildDayPlan is consistent: minutesUsed is the sum of
\* the scheduled durations of the plan; no task is in the plan twice; no task
\* is both planned and blocked; an item is scheduled for its variant's
\* duration if it has a variant and for its effectiveDuration otherwise; and
\* exactly the mandatory items are pinned.
C27_ResultConsistent ==
  Called =>
    /\ dayPlan.minutesUsed = PlanMinutes
    /\ \A i, j \in DOMAIN dayPlan.plan :
         dayPlan.plan[i].id = dayPlan.plan[j].id => i = j
    /\ PlanIds \cap BlockedIds = {}
    /\ \A i \in DOMAIN dayPlan.plan :
         LET item == dayPlan.plan[i]
         IN  /\ item.scheduledDuration =
                  (IF item.variant # Null THEN item.variant.duration_minutes
                   ELSE item.effectiveDuration)
             /\ IsPinned(item) <=> item.mandatory

\* a plan with a mandatory item in a variant, an item outside the mandatory
\* tier at its effective duration, and a blocked task
C27_Witness ==
  /\ Called
  /\ dayPlan.blocked # <<>>
  /\ \E i, j \in DOMAIN dayPlan.plan :
       /\ dayPlan.plan[i].mandatory /\ dayPlan.plan[i].variant # Null
       /\ dayPlan.plan[i].variant.duration_minutes # dayPlan.plan[i].effectiveDuration
       /\ ~dayPlan.plan[j].mandatory /\ dayPlan.plan[j].variant = Null

\* C28: when the mandatory items total at most availableMinutes, minutesUsed
\* is at most availableMinutes + 15; a plan beyond availableMinutes + 15 holds
\* mandatory items only; and the other items together add at most
\* max(0, availableMinutes + 15 - mandatory minutes).
C28_OverflowBounded ==
  Called =>
    /\ MandatoryMinutes <= dayPlan.availableMinutes =>
         dayPlan.minutesUsed <= dayPlan.availableMinutes + GRACE_MINUTES
    /\ dayPlan.minutesUsed > dayPlan.availableMinutes + GRACE_MINUTES =>
         \A i \in DOMAIN dayPlan.plan : dayPlan.plan[i].mandatory
    /\ dayPlan.minutesUsed - MandatoryMinutes <=
         Max2(0, dayPlan.availableMinutes + GRACE_MINUTES - MandatoryMinutes)

\* a plan whose mandatory items fit the day and whose other items carry it
\* into the grace band
C28_Witness ==
  /\ Called
  /\ MandatoryMinutes > 0
  /\ MandatoryMinutes <= dayPlan.availableMinutes
  /\ dayPlan.minutesUsed > dayPlan.availableMinutes
  /\ dayPlan.minutesUsed <= dayPlan.availableMinutes + GRACE_MINUTES

\* ================================== claims: pickVariant under time pressure
\* the first listed of the variants of least duration
FirstShortest(vs) ==
  vs[CHOOSE i \in DOMAIN vs :
       /\ \A j \in DOMAIN vs : vs[i].duration_minutes <= vs[j].duration_minutes
       /\ \A j \in 1..(i - 1) : vs[j].duration_minutes > vs[i].duration_minutes]

\* C29: under time pressure pickVariant returns the shortest variant of the
\* task (the first listed of equally short ones) whatever timeRemaining,
\* energy and sleep are: the result is a function of the task alone.
C29_PressurePicksShortest ==
  \A n \in DOMAIN calls :
    LET c == calls[n]
    IN  (c.fn = "pickVariant" /\ c.timePressure /\ c.task.variants # <<>>) =>
          c.result = FirstShortest(c.task.variants)

\* a call under pressure with time for every variant of the task, the
\* longer one listed first
C29_Witness ==
  /\ calls # <<>>
  /\ calls[1].fn = "pickVariant"
  /\ calls[1].timePressure
  /\ calls[1].task.id = "deepwork"
  /\ calls[1].timeRemaining >= 100
  /\ calls[1].energy = 6 /\ calls[1].sleep = "ok"
  /\ calls[1].result = Variant("short", 60, 4)

\* ============================================ claims: the learned duration
\* C30: the stored average duration stays between the smallest and the
\* largest actual duration supplied for the task, also when earlier reviews
\* supplied none: a review that supplies the first actual stores it, and a
\* later one moves the average between its old value and the new actual.
C30_AverageWithinActuals ==
  [][submitReview =>
       \A id \in DOMAIN completedTasks :
         LET prev == Learned(learnedData, id)
             new == learnedData'[id]
             actual == ActualMin(actualTimes, id)
         IN  actual # 0 =>
               IF prev.avg_duration = 0 THEN new.avg_duration = actual
               ELSE /\ Min2(prev.avg_duration, actual) <= new.avg_duration
                    /\ new.avg_duration <= Max2(prev.avg_duration, actual)]_vars

====
